---- MODULE Spec2Model ----
(***************************************************************************)
(* Model of hotel.py: a Flask application over one SQLite database with    *)
(* the tables rooms, guests and bookings.  A table is the sequence of its  *)
(* rows; the AUTOINCREMENT id of a row is its index (no handler deletes).  *)
(* Text fields are tuples of Unicode code points so that str.strip() can   *)
(* be computed.  A REAL amount is named by an integer count of 1/Scale *)
(* currency units, the decimal its double is nearest to.                   *)
(* Dates are tuples <<year, month, day>> as read from "%Y-%m-%d".          *)
(***************************************************************************)
EXTENDS Integers, Sequences, FiniteSets, TLC

VARIABLES rooms, guests, bookings, last, conn, lock, pending

store == <<rooms, guests, bookings>>
txvars == <<conn, lock, pending>>
vars == <<rooms, guests, bookings, last, conn, lock, pending>>

----------------------------------------------------------------------------
(* Bounds of the model *)

MaxGuests == 1
MaxBookings == 2
NConn == 2

(* REAL amounts are counted in 1/Scale currency units (three decimals) *)
Scale == 1000

----------------------------------------------------------------------------
(* Inputs of the requests *)

(* "", VT NBSP, "101", " 7\n" *)
NumberInputs == { <<>>, <<11, 160>>, <<49, 48, 49>>, <<32, 55, 10>> }
TypeInputs == { "Single", "Penthouse" }
PriceInputs == { 0 - Scale, 1500 * Scale }
(* "", CR NEL, "A" *)
NameInputs == { <<>>, <<13, 133>>, <<65>> }
PhoneInputs == { <<>> }
EmailInputs == { <<>> }
DatePairInputs ==
    { <<<<2024, 1, 1>>, <<2024, 1, 3>>>>, <<<<2024, 1, 3>>, <<2024, 1, 1>>>>,
      <<<<2024, 1, 1>>, <<2024, 1, 1>>>>, <<<<2024, 2, 30>>, <<2024, 3, 1>>>> }
ActionInputs == { "checkin", "checkout", "cancel", "other" }
(* the ids of the rows of a table and one id that resolves to no row; of *)
(* the guests, the first one stands for all (no handler reads a guest)   *)
RoomIdInputs == 1..(Len(rooms) + 1)
GuestIdInputs == { 1, Len(guests) + 1 }
BookingIdInputs == 1..(Len(bookings) + 1)
Conns == 1..NConn

----------------------------------------------------------------------------
(* Utilities *)

(* the characters that str.strip() removes: those for which str.isspace() *)
(* holds (TAB, LF, VT, FF, CR, FS, GS, RS, US, SPACE, NEL, NBSP and the    *)
(* Unicode spaces)                                                         *)
Whitespace ==
    (9..13) \cup (28..32) \cup { 133, 160, 5760 } \cup (8192..8202)
        \cup { 8232, 8233, 8239, 8287, 12288 }

RECURSIVE lstrip(_)
lstrip(s) == IF s # <<>> /\ Head(s) \in Whitespace THEN lstrip(Tail(s)) ELSE s

RECURSIVE rstrip(_)
rstrip(s) ==
    IF s # <<>> /\ s[Len(s)] \in Whitespace
    THEN rstrip(SubSeq(s, 1, Len(s) - 1)) ELSE s

strip(s) == rstrip(lstrip(s))

IsLeap(y) == (y % 4 = 0) /\ ((y % 100 # 0) \/ (y % 400 = 0))

DaysInMonth(y, m) ==
    IF m = 2 THEN (IF IsLeap(y) THEN 29 ELSE 28)
    ELSE IF m \in {4, 6, 9, 11} THEN 30 ELSE 31

(* datetime.strptime(s, "%Y-%m-%d") raises ValueError on a day out of range *)
strptime_ok(d) ==
    /\ d[1] \in 1..9999
    /\ d[2] \in 1..12
    /\ d[3] \in 1..DaysInMonth(d[1], d[2])

RECURSIVE DaysBeforeMonth(_, _)
DaysBeforeMonth(y, m) ==
    IF m = 1 THEN 0 ELSE DaysBeforeMonth(y, m - 1) + DaysInMonth(y, m - 1)

DaysBeforeYear(y) ==
    LET p == y - 1 IN p * 365 + (p \div 4) - (p \div 100) + (p \div 400)

(* date.toordinal(); (d2 - d1).days is the difference of the ordinals *)
toordinal(d) == DaysBeforeYear(d[1]) + DaysBeforeMonth(d[1], d[2]) + d[3]

Max(a, b) == IF a >= b THEN a ELSE b

(* A REAL is an IEEE double.  The model names a double by the decimal with *)
(* three places it is nearest to, x / Scale, and computes, where a result  *)
(* depends on it, the deviation of the double from that decimal:           *)
(* double = x / Scale + dev / (Scale * 2^e), with e the binary exponent    *)
(* that gives the double a 53-bit integer significand.                     *)

(* floor(log2(num / den)) for num, den > 0 *)
RECURSIVE Log2Floor(_, _)
Log2Floor(num, den) ==
    IF num >= 2 * den THEN Log2Floor(num, 2 * den) + 1
    ELSE IF num < den THEN Log2Floor(2 * num, den) - 1
    ELSE 0

(* 2^e modulo q *)
RECURSIVE Pow2Mod(_, _)
Pow2Mod(e, q) == IF e = 0 THEN 1 % q ELSE (2 * Pow2Mod(e - 1, q)) % q

(* the exponent e with 2^52 <= (x / Scale) * 2^e < 2^53, for x > 0 *)
FloatExp(x) == 52 - Log2Floor(x, Scale)

(* float("x / Scale"), x >= 0: the deviation of the nearest double.  The   *)
(* remainder R of x * 2^e by Scale is a multiple of 8, never Scale / 2.    *)
FloatDev(x) ==
    IF x = 0 THEN 0
    ELSE LET R == ((x % Scale) * Pow2Mod(FloatExp(x), Scale)) % Scale
         IN  IF 2 * R < Scale THEN 0 - R ELSE Scale - R

(* price_per_night * nights in double arithmetic, for a price x >= 0 and   *)
(* an int n >= 0: the deviation of the rounded product from x * n / Scale. *)
(* The exact product of the double and n is rounded to 53 bits, a tie      *)
(* going to the even significand.                                          *)
MulDev(x, n) ==
    IF x * n = 0 THEN 0
    ELSE LET T == x * n
             e2 == FloatExp(T)
             s == FloatExp(x) - e2
             A2 == ((T % (2 * Scale)) * Pow2Mod(e2, 2 * Scale)) % (2 * Scale)
             R == A2 % Scale
             Qodd == (A2 \div Scale) = 1
             D == Scale * (2 ^ s)
             N == R * (2 ^ s) + FloatDev(x) * n
             t == N \div D
             rem == N % D
             up == \/ 2 * rem > D
                   \/ 2 * rem = D /\ (Qodd # (t % 2 = 1))
         IN  Scale * (IF up THEN t + 1 ELSE t) - R

(* round(f, 2) for the double f >= 0 named by x and dev: the hundredth     *)
(* nearest to the exact value of f; f is on a decimal tie only when dev is *)
(* 0, and the tie goes to the even hundredth                               *)
round2(x, dev) ==
    LET q == x \div 10
        r == x % 10
    IN  IF r > 5 \/ (r = 5 /\ (dev > 0 \/ (dev = 0 /\ q % 2 = 1)))
        THEN (q + 1) * 10 ELSE q * 10

compute_total_amount_Inclusive(price_per_night, check_in, check_out) ==
    LET nights == Max(toordinal(check_out) - toordinal(check_in) + 1, 0)
        p == IF price_per_night >= 0 THEN price_per_night ELSE 0 - price_per_night
        total == round2(p * nights, MulDev(p, nights))
    IN  IF price_per_night >= 0 THEN total ELSE 0 - total

(* a negative price gives the mirror image of the positive one: the double *)
(* operations and round() are symmetric in the sign                        *)
compute_total_amount(price_per_night, check_in, check_out) ==
    LET nights == Max(toordinal(check_out) - toordinal(check_in), 0)
        p == IF price_per_night >= 0 THEN price_per_night ELSE 0 - price_per_night
        total == round2(p * nights, MulDev(p, nights))
    IN  IF price_per_night >= 0 THEN total ELSE 0 - total

----------------------------------------------------------------------------
(* SCHEMA_SQL: constraints and defaults of the three tables *)

RoomTypes == { "Single", "Double", "Suite" }
RoomStatuses == { "Available", "Occupied", "Maintenance" }
BookingStatuses == { "Booked", "Checked-In", "Checked-Out", "Cancelled" }

Ids(table) == 1..Len(table)

RoomConstraintsOk_NoUnique(rm, number, rtype, price) ==
    /\ rtype \in RoomTypes
    /\ price >= 0

(* rooms: number UNIQUE, CHECK(type IN ...), CHECK(price_per_night >= 0) *)
RoomConstraintsOk(rm, number, rtype, price) ==
    /\ \A i \in Ids(rm) : rm[i].number # number
    /\ rtype \in RoomTypes
    /\ price >= 0

InsertRoom(rm, number, rtype, price, status) ==
    Append(rm, [number |-> number, type |-> rtype,
                price_per_night |-> price, status |-> status])

InsertGuest(gs, name, phone, email) ==
    Append(gs, [name |-> name, phone |-> phone, email |-> email])

ForeignKeysOk_Unenforced(rm, gs, room_id, guest_id) == TRUE

(* bookings: FOREIGN KEY(room_id), FOREIGN KEY(guest_id), enforced because *)
(* get_db sets PRAGMA foreign_keys = ON                                    *)
ForeignKeysOk(rm, gs, room_id, guest_id) ==
    /\ room_id \in Ids(rm)
    /\ guest_id \in Ids(gs)

InsertBooking_SwappedIds(bk, room_id, guest_id, check_in, check_out, total) ==
    Append(bk, [room_id |-> guest_id, guest_id |-> room_id,
                check_in |-> check_in, check_out |-> check_out,
                status |-> "Booked", total_amount |-> total])

(* INSERT INTO bookings(room_id, guest_id, check_in, check_out, total_amount); *)
(* status takes its DEFAULT 'Booked'                                            *)
InsertBooking(bk, room_id, guest_id, check_in, check_out, total) ==
    Append(bk, [room_id |-> room_id, guest_id |-> guest_id,
                check_in |-> check_in, check_out |-> check_out,
                status |-> "Booked", total_amount |-> total])

UpdateBookingStatus_ClearsTotal(bk, bid, status) ==
    [i \in Ids(bk) |->
        IF i = bid THEN [bk[i] EXCEPT !.status = status, !.total_amount = 0] ELSE bk[i]]

(* UPDATE bookings SET status=? WHERE id=? *)
UpdateBookingStatus(bk, bid, status) ==
    [i \in Ids(bk) |-> IF i = bid THEN [bk[i] EXCEPT !.status = status] ELSE bk[i]]

UpdateRoomStatus_AllRooms(rm, rid, status) ==
    [i \in Ids(rm) |-> [rm[i] EXCEPT !.status = status]]

(* UPDATE rooms SET status=? WHERE id=? *)
UpdateRoomStatus(rm, rid, status) ==
    [i \in Ids(rm) |-> IF i = rid THEN [rm[i] EXCEPT !.status = status] ELSE rm[i]]

(* (SELECT room_id FROM bookings WHERE id=?): 0 stands for NULL, no row *)
SelectRoomIdOfBooking(bk, bid) ==
    IF bid \in Ids(bk) THEN bk[bid].room_id ELSE 0

(* The booking status and the room status that each action writes *)
ActionBookingStatus_Reopen(action) ==
    CASE action = "checkin" -> "Checked-In"
      [] action = "checkout" -> "Checked-Out"
      [] action = "cancel" -> "Booked"

ActionBookingStatus(action) ==
    CASE action = "checkin" -> "Checked-In"
      [] action = "checkout" -> "Checked-Out"
      [] action = "cancel" -> "Cancelled"

ActionRoomStatus_CheckoutOccupies(action) ==
    CASE action = "checkin" -> "Occupied"
      [] action = "checkout" -> "Occupied"
      [] action = "cancel" -> "Available"

ActionRoomStatus_CancelKeeps(action) ==
    CASE action = "checkin" -> "Occupied"
      [] action = "checkout" -> "Available"
      [] action = "cancel" -> "Occupied"

ActionRoomStatus(action) ==
    CASE action = "checkin" -> "Occupied"
      [] action = "checkout" -> "Available"
      [] action = "cancel" -> "Available"

ActionFlash(action) ==
    CASE action = "checkin" -> "Guest checked in"
      [] action = "checkout" -> "Guest checked out"
      [] action = "cancel" -> "Booking cancelled"

KnownActions == { "checkin", "checkout", "cancel" }

----------------------------------------------------------------------------------------------------------------------------------------------------
(* The response of the latest request: the handler that served it and the  *)
(* message it flashed, or the exception that ended it with a 500           *)

Response(op, result) == [op |-> op, result |-> result]

Init ==
    /\ rooms = <<>>
    /\ guests = <<>>
    /\ bookings = <<>>
    /\ last = Response("none", "")
    /\ conn = <<>>
    /\ lock = 0
    /\ pending = <<>>

----------------------------------------------------------------------------
(* Handlers, each a whole request served alone *)

(* rooms(), POST *)
RoomsPost(number_in, rtype, price) ==
    LET number == strip(number_in) IN
    /\ IF number = <<>>
       THEN /\ last' = Response("rooms", "Room number is required")
            /\ UNCHANGED rooms
       ELSE /\ lock = 0
            /\ IF RoomConstraintsOk(rooms, number, rtype, price)
               THEN /\ rooms' = InsertRoom(rooms, number, rtype, price, "Available")
                    /\ last' = Response("rooms", "Room added")
               ELSE /\ last' = Response("rooms", "Error: IntegrityError")
                    /\ UNCHANGED rooms
    /\ UNCHANGED <<guests, bookings, txvars>>

(* guests(), POST *)
GuestsPost(name_in, phone_in, email_in) ==
    LET name == strip(name_in) IN
    /\ IF name = <<>>
       THEN /\ last' = Response("guests", "Guest name is required")
            /\ UNCHANGED guests
       ELSE /\ lock = 0
            /\ Len(guests) < MaxGuests
            /\ guests' = InsertGuest(guests, name, strip(phone_in), strip(email_in))
            /\ last' = Response("guests", "Guest added")
    /\ UNCHANGED <<rooms, bookings, txvars>>

SeedRooms ==
    << [number |-> <<49, 48, 49>>, type |-> "Single",
        price_per_night |-> 1500 * Scale, status |-> "Available"],
       [number |-> <<49, 48, 50>>, type |-> "Double",
        price_per_night |-> 2500 * Scale, status |-> "Available"],
       [number |-> <<50, 48, 49>>, type |-> "Suite",
        price_per_night |-> 5000 * Scale, status |-> "Maintenance"] >>

SeedGuests ==
    << [name |-> <<65, 97, 114, 97, 118, 32, 83, 104, 97, 114, 109, 97>>,
        phone |-> <<57, 57, 57, 57, 57, 57, 57, 57, 57, 57>>,
        email |->
            <<97, 97, 114, 97, 118, 64, 101, 120, 97, 109, 112, 108, 101, 46, 99, 111, 109>>],
       [name |-> <<73, 115, 104, 97, 32, 80, 97, 116, 101, 108>>,
        phone |-> <<56, 56, 56, 56, 56, 56, 56, 56, 56, 56>>,
        email |->
            <<105, 115, 104, 97, 64, 101, 120, 97, 109, 112, 108, 101, 46, 99, 111, 109>>] >>

(* seed(), served alone *)
Seed ==
    /\ lock = 0
    /\ rooms' = IF Len(rooms) = 0 THEN SeedRooms ELSE rooms
    /\ guests' = IF Len(guests) = 0 THEN SeedGuests ELSE guests
    /\ last' = Response("seed", "Seeded sample data")
    /\ UNCHANGED <<bookings, txvars>>

(* bookings() with ?action=&id=: the tables after the two UPDATEs *)
ActionBookings(bk, action, bid) ==
    UpdateBookingStatus(bk, bid, ActionBookingStatus(action))

ActionRooms(rm, bk, action, bid) ==
    UpdateRoomStatus(rm, SelectRoomIdOfBooking(bk, bid), ActionRoomStatus(action))

BookingsAction_Guarded(action, bid) ==
    /\ lock = 0
    /\ IF action \in KnownActions
          /\ (action = "checkin" => bid \in Ids(bookings) /\ bookings[bid].status = "Booked")
       THEN LET bk == ActionBookings(bookings, action, bid) IN
            /\ bookings' = bk
            /\ rooms' = ActionRooms(rooms, bk, action, bid)
            /\ last' = Response("action", ActionFlash(action))
       ELSE /\ last' = Response("action", "")
            /\ UNCHANGED <<rooms, bookings>>
    /\ UNCHANGED <<guests, txvars>>

(* bookings() with ?action=&id= *)
BookingsAction(action, bid) ==
    /\ lock = 0
    /\ IF action \in KnownActions
       THEN LET bk == ActionBookings(bookings, action, bid) IN
            /\ bookings' = bk
            /\ rooms' = ActionRooms(rooms, bk, action, bid)
            /\ last' = Response("action", ActionFlash(action))
       ELSE /\ last' = Response("action", "")
            /\ UNCHANGED <<rooms, bookings>>
    /\ UNCHANGED <<guests, txvars>>

DateError_AllowsEqual(check_in, check_out) ==
    IF ~(strptime_ok(check_in) /\ strptime_ok(check_out)) THEN "ValueError"
    ELSE IF ~(toordinal(check_out) >= toordinal(check_in))
    THEN "Check-out must be after check-in"
    ELSE ""

(* the date validation of bookings(), POST: "" when the dates pass, else  *)
(* the exception that the except clause flashes                           *)
DateError(check_in, check_out) ==
    IF ~(strptime_ok(check_in) /\ strptime_ok(check_out)) THEN "ValueError"
    ELSE IF ~(toordinal(check_out) > toordinal(check_in))
    THEN "Check-out must be after check-in"
    ELSE ""

(* SELECT id, price_per_night FROM rooms WHERE id=?: <<>> when no row *)
SelectRoom(rm, room_id) ==
    IF room_id \in Ids(rm)
    THEN <<[id |-> room_id, price_per_night |-> rm[room_id].price_per_night]>>
    ELSE <<>>

BookingsPost_ChecksRoom(room_id, guest_id, check_in, check_out) ==
    LET err == DateError(check_in, check_out)
        row == SelectRoom(rooms, room_id)
    IN
    /\ lock = 0
    /\ IF err # ""
       THEN /\ last' = Response("book", err)
            /\ UNCHANGED <<rooms, bookings>>
       ELSE IF row = <<>>
       THEN /\ last' = Response("book", "Invalid room")
            /\ UNCHANGED <<rooms, bookings>>
       ELSE IF rooms[room_id].status # "Available"
       THEN /\ last' = Response("book", "Room not available")
            /\ UNCHANGED <<rooms, bookings>>
       ELSE IF ~ForeignKeysOk(rooms, guests, room_id, guest_id)
       THEN /\ last' = Response("book", "IntegrityError")
            /\ UNCHANGED <<rooms, bookings>>
       ELSE LET total == compute_total_amount(row[1].price_per_night, check_in, check_out)
            IN  /\ Len(bookings) < MaxBookings
                /\ bookings' = InsertBooking(bookings, room_id, guest_id,
                                             check_in, check_out, total)
                /\ rooms' = UpdateRoomStatus(rooms, room_id, "Occupied")
                /\ last' = Response("book", "Booking created")
    /\ UNCHANGED <<guests, txvars>>

(* bookings(), POST *)
BookingsPost(room_id, guest_id, check_in, check_out) ==
    LET err == DateError(check_in, check_out)
        row == SelectRoom(rooms, room_id)
    IN
    /\ lock = 0
    /\ IF err # ""
       THEN /\ last' = Response("book", err)
            /\ UNCHANGED <<rooms, bookings>>
       ELSE IF row = <<>>
       THEN /\ last' = Response("book", "Invalid room")
            /\ UNCHANGED <<rooms, bookings>>
       ELSE IF ~ForeignKeysOk(rooms, guests, room_id, guest_id)
       THEN /\ last' = Response("book", "IntegrityError")
            /\ UNCHANGED <<rooms, bookings>>
       ELSE LET total == compute_total_amount(row[1].price_per_night,
                                              check_in, check_out)
            IN  /\ Len(bookings) < MaxBookings
                /\ bookings' = InsertBooking(bookings, room_id, guest_id,
                                             check_in, check_out, total)
                /\ rooms' = UpdateRoomStatus(rooms, room_id, "Occupied")
                /\ last' = Response("book", "Booking created")
    /\ UNCHANGED <<guests, txvars>>

----------------------------------------------------------------------------
(* Spec: the registry and the booking engine, requests served one at a time *)

CreateRoom ==
    \E n \in NumberInputs, t \in TypeInputs, p \in PriceInputs : RoomsPost(n, t, p)

CreateGuest ==
    \E n \in NameInputs, ph \in PhoneInputs, e \in EmailInputs : GuestsPost(n, ph, e)

Transition ==
    \E a \in ActionInputs, b \in BookingIdInputs : BookingsAction(a, b)

CreateBooking ==
    \E r \in RoomIdInputs, g \in GuestIdInputs, d \in DatePairInputs :
        BookingsPost(r, g, d[1], d[2])

Next ==
    \/ CreateRoom
    \/ CreateGuest
    \/ Transition
    \/ CreateBooking

Spec == Init /\ [][Next]_vars

(* SeedSpec: the same engine over the sample data of seed() *)

SeedNext ==
    \/ Seed
    \/ Transition
    \/ CreateBooking

SeedSpec == Init /\ [][SeedNext]_vars

----------------------------------------------------------------------------
(* TxSpec: requests served concurrently, one step per SQL statement.       *)
(* Each request has its own connection (get_db).  sqlite3 opens a          *)
(* transaction before the first INSERT/UPDATE of a connection; the         *)
(* statement takes the write lock of the database file, which one          *)
(* connection holds at a time.  The writes of the transaction are in       *)
(* pending = <<rooms, bookings>> and reach the tables, which the other     *)
(* connections read, at db.commit().  A SELECT outside a transaction reads *)
(* the committed tables.                                                   *)

Idle == [pc |-> "idle", op |-> "", args |-> <<>>, total |-> 0]

TxInit ==
    /\ rooms = InsertRoom(<<>>, <<49, 48, 49>>, "Single", 1500 * Scale, "Available")
    /\ guests = InsertGuest(<<>>, <<65>>, <<>>, <<>>)
    /\ bookings = <<>>
    /\ last = Response("none", "")
    /\ conn = [c \in Conns |-> Idle]
    /\ lock = 0
    /\ pending = <<>>

TxRoomIdInputs == { 1, 2 }
TxGuestIdInputs == { 1, 2 }
TxDatePairInputs == { <<<<2024, 1, 1>>, <<2024, 1, 3>>>>, <<<<2024, 1, 3>>, <<2024, 1, 1>>>> }

close_db_Commits(committed, pend) == IF pend = <<>> THEN committed ELSE pend

(* close_db(): db.close() with a transaction open discards its writes *)
close_db(committed, pend) == committed

(* the request ends: teardown closes the connection *)
EndRequest(c, op, result) ==
    /\ conn' = [conn EXCEPT ![c] = Idle]
    /\ last' = Response(op, result)

(* UPDATE bookings SET status=... WHERE id=?: first statement of an action *)
TxActionUpdateBooking(c, action, bid) ==
    /\ conn[c].pc = "idle"
    /\ lock = 0
    /\ lock' = c
    /\ pending' = <<rooms, ActionBookings(bookings, action, bid)>>
    /\ conn' = [conn EXCEPT ![c] = [pc |-> "a2", op |-> "action",
                                    args |-> <<action, bid>>, total |-> 0]]
    /\ UNCHANGED <<rooms, guests, bookings, last>>

(* UPDATE rooms SET status=... WHERE id=(SELECT room_id FROM bookings ...) *)
TxActionUpdateRoom(c) ==
    /\ conn[c].pc = "a2"
    /\ lock = c
    /\ pending' = <<ActionRooms(pending[1], pending[2], conn[c].args[1], conn[c].args[2]),
                    pending[2]>>
    /\ conn' = [conn EXCEPT ![c].pc = "commit"]
    /\ UNCHANGED <<rooms, guests, bookings, last, lock>>

(* the date validation and SELECT id, price_per_night FROM rooms WHERE id=? *)
TxBookSelect(c, room_id, guest_id, check_in, check_out) ==
    LET err == DateError(check_in, check_out)
        row == SelectRoom(rooms, room_id)
    IN
    /\ conn[c].pc = "idle"
    /\ IF err # ""
       THEN EndRequest(c, "book", err)
       ELSE IF row = <<>>
       THEN EndRequest(c, "book", "Invalid room")
       ELSE /\ conn' = [conn EXCEPT ![c] =
                   [pc |-> "p1", op |-> "book",
                    args |-> <<room_id, guest_id, check_in, check_out>>,
                    total |-> compute_total_amount(row[1].price_per_night,
                                                   check_in, check_out)]]
            /\ UNCHANGED last
    /\ UNCHANGED <<rooms, guests, bookings, lock, pending>>

TxBookInsert_SharedConnection(c) ==
    LET a == conn[c].args
        rm == IF lock = 0 THEN rooms ELSE pending[1]
        bk == IF lock = 0 THEN bookings ELSE pending[2]
    IN
    /\ conn[c].pc = "p1"
    /\ lock' = IF lock = 0 THEN c ELSE lock
    /\ IF ~ForeignKeysOk(rm, guests, a[1], a[2])
       THEN /\ pending' = <<rm, bk>>
            /\ conn' = [conn EXCEPT ![c].pc = "raised"]
       ELSE /\ Len(bk) < MaxBookings
            /\ pending' = <<rm, InsertBooking(bk, a[1], a[2], a[3], a[4], conn[c].total)>>
            /\ conn' = [conn EXCEPT ![c].pc = "p2"]
    /\ UNCHANGED <<rooms, guests, bookings, last>>

(* INSERT INTO bookings(...): the first write of a createBooking.  sqlite3 *)
(* has begun a transaction and the statement has taken the write lock also *)
(* when it fails on a FOREIGN KEY: the exception leaves the handler with   *)
(* the transaction open, and the lock is held until the teardown           *)
TxBookInsert(c) ==
    LET a == conn[c].args IN
    /\ conn[c].pc = "p1"
    /\ lock = 0
    /\ lock' = c
    /\ IF ~ForeignKeysOk(rooms, guests, a[1], a[2])
       THEN /\ pending' = <<rooms, bookings>>
            /\ conn' = [conn EXCEPT ![c].pc = "raised"]
       ELSE /\ Len(bookings) < MaxBookings
            /\ pending' = <<rooms, InsertBooking(bookings, a[1], a[2], a[3], a[4],
                                                 conn[c].total)>>
            /\ conn' = [conn EXCEPT ![c].pc = "p2"]
    /\ UNCHANGED <<rooms, guests, bookings, last>>

(* the IntegrityError of the INSERT is not caught: the request ends with a *)
(* 500 and the teardown closes the connection, which rolls back            *)
TxBookRaise(c) ==
    /\ conn[c].pc = "raised"
    /\ lock = c
    /\ LET t == close_db(<<rooms, bookings>>, pending) IN
          /\ rooms' = t[1]
          /\ bookings' = t[2]
    /\ lock' = 0
    /\ pending' = <<>>
    /\ EndRequest(c, "book", "IntegrityError")
    /\ UNCHANGED guests

(* UPDATE rooms SET status='Occupied' WHERE id=? *)
TxBookUpdateRoom(c) ==
    /\ conn[c].pc = "p2"
    /\ lock = c
    /\ pending' = <<UpdateRoomStatus(pending[1], conn[c].args[1], "Occupied"), pending[2]>>
    /\ conn' = [conn EXCEPT ![c].pc = "commit"]
    /\ UNCHANGED <<rooms, guests, bookings, last, lock>>

(* db.commit() and the flash that follows it *)
TxCommit(c) ==
    /\ conn[c].pc = "commit"
    /\ lock = c
    /\ rooms' = pending[1]
    /\ bookings' = pending[2]
    /\ lock' = 0
    /\ pending' = <<>>
    /\ EndRequest(c, conn[c].op,
                  IF conn[c].op = "action" THEN ActionFlash(conn[c].args[1])
                  ELSE "Booking created")
    /\ UNCHANGED guests

(* the first write of a request finds the database locked by another      *)
(* connection until the timeout: sqlite3.OperationalError, a 500          *)
TxBusyAction(c) ==
    /\ conn[c].pc = "idle"
    /\ lock \notin {0, c}
    /\ EndRequest(c, "action", "OperationalError")
    /\ UNCHANGED <<rooms, guests, bookings, lock, pending>>

TxBusyBook(c) ==
    /\ conn[c].pc = "p1"
    /\ lock \notin {0, c}
    /\ EndRequest(c, "book", "OperationalError")
    /\ UNCHANGED <<rooms, guests, bookings, lock, pending>>

(* the request is aborted (the worker dies, the client of a streaming      *)
(* server goes away): the connection is closed without a commit            *)
TxAbort(c) ==
    /\ conn[c].pc \in {"p1", "a2", "p2", "commit", "raised"}
    /\ LET t == close_db(<<rooms, bookings>>, IF lock = c THEN pending ELSE <<>>) IN
          /\ rooms' = t[1]
          /\ bookings' = t[2]
    /\ lock' = IF lock = c THEN 0 ELSE lock
    /\ pending' = IF lock = c THEN <<>> ELSE pending
    /\ EndRequest(c, conn[c].op, "Connection closed")
    /\ UNCHANGED guests

TxNext ==
    \E c \in Conns :
        \/ \E a \in KnownActions, b \in BookingIdInputs : TxActionUpdateBooking(c, a, b)
        \/ TxActionUpdateRoom(c)
        \/ \E r \in TxRoomIdInputs, g \in TxGuestIdInputs, d \in TxDatePairInputs :
              TxBookSelect(c, r, g, d[1], d[2])
        \/ TxBookInsert(c)
        \/ TxBookRaise(c)
        \/ TxBookUpdateRoom(c)
        \/ TxCommit(c)
        \/ TxBusyAction(c)
        \/ TxBusyBook(c)
        \/ TxAbort(c)

TxSpec == TxInit /\ [][TxNext]_vars

----------------------------------------------------------------------------
(* seed(), rooms() and guests(), statement by statement, each on the       *)
(* connection of its request.  The transactions here write rooms and       *)
(* guests: pending = <<rooms, guests>>.                                    *)

SeedTxInit ==
    /\ rooms = <<>>
    /\ guests = <<>>
    /\ bookings = <<>>
    /\ last = Response("none", "")
    /\ conn = [c \in Conns |-> Idle]
    /\ lock = 0
    /\ pending = <<>>

(* executemany(INSERT INTO rooms ...): the rows are inserted in order up   *)
(* to the first one that breaks a constraint of the table                  *)
RECURSIVE RoomRowsOk(_, _)
RoomRowsOk(rm, rows) ==
    \/ rows = <<>>
    \/ /\ RoomConstraintsOk(rm, Head(rows).number, Head(rows).type,
                             Head(rows).price_per_night)
       /\ RoomRowsOk(Append(rm, Head(rows)), Tail(rows))

RECURSIVE InsertRoomRows(_, _)
InsertRoomRows(rm, rows) ==
    IF rows = <<>> THEN rm
    ELSE IF RoomConstraintsOk(rm, Head(rows).number, Head(rows).type,
                              Head(rows).price_per_night)
    THEN InsertRoomRows(Append(rm, Head(rows)), Tail(rows))
    ELSE rm

(* count = SELECT COUNT FROM rooms *)
SeedCountRooms(c) ==
    /\ conn[c].pc = "idle"
    /\ conn' = [conn EXCEPT ![c] = [pc |-> "s1", op |-> "seed",
                                    args |-> <<Len(rooms)>>, total |-> 0]]
    /\ UNCHANGED <<rooms, guests, bookings, last, lock, pending>>

(* if count == 0: executemany(INSERT INTO rooms ...), the first write *)
SeedInsertRooms(c) ==
    /\ conn[c].pc = "s1"
    /\ IF conn[c].args[1] # 0
       THEN /\ conn' = [conn EXCEPT ![c].pc = "s2"]
            /\ UNCHANGED <<lock, pending>>
       ELSE /\ lock = 0
            /\ lock' = c
            /\ pending' = <<InsertRoomRows(rooms, SeedRooms), guests>>
            /\ conn' = [conn EXCEPT ![c].pc =
                           IF RoomRowsOk(rooms, SeedRooms) THEN "s2" ELSE "raised"]
    /\ UNCHANGED <<rooms, guests, bookings, last>>

(* SELECT COUNT FROM guests, read inside the transaction if one is open *)
SeedCountGuests(c) ==
    /\ conn[c].pc = "s2"
    /\ conn' = [conn EXCEPT ![c].pc = "s3",
                            ![c].args = <<Len(IF lock = c THEN pending[2] ELSE guests)>>]
    /\ UNCHANGED <<rooms, guests, bookings, last, lock, pending>>

(* if the count is 0: executemany(INSERT INTO guests ...) *)
SeedInsertGuests(c) ==
    /\ conn[c].pc = "s3"
    /\ IF conn[c].args[1] # 0
       THEN UNCHANGED <<lock, pending>>
       ELSE /\ lock \in {0, c}
            /\ lock' = c
            /\ pending' = IF lock = c THEN <<pending[1], pending[2] \o SeedGuests>>
                          ELSE <<rooms, guests \o SeedGuests>>
    /\ conn' = [conn EXCEPT ![c].pc = "s4"]
    /\ UNCHANGED <<rooms, guests, bookings, last>>

(* db.commit() and the flash *)
SeedCommit(c) ==
    /\ conn[c].pc = "s4"
    /\ IF lock = c
       THEN /\ rooms' = pending[1]
            /\ guests' = pending[2]
            /\ lock' = 0
            /\ pending' = <<>>
       ELSE UNCHANGED <<rooms, guests, lock, pending>>
    /\ EndRequest(c, "seed", "Seeded sample data")
    /\ UNCHANGED bookings

(* the IntegrityError of the INSERT INTO rooms is not caught: a 500, and   *)
(* the teardown closes the connection, which rolls back                    *)
SeedRaise(c) ==
    /\ conn[c].pc = "raised"
    /\ lock = c
    /\ LET t == close_db(<<rooms, guests>>, pending) IN
          /\ rooms' = t[1]
          /\ guests' = t[2]
    /\ lock' = 0
    /\ pending' = <<>>
    /\ EndRequest(c, "seed", "IntegrityError")
    /\ UNCHANGED bookings

(* the first write finds the database locked until the timeout *)
SeedBusy(c) ==
    /\ conn[c].pc \in {"s1", "s3"}
    /\ conn[c].args[1] = 0
    /\ lock \notin {0, c}
    /\ EndRequest(c, "seed", "OperationalError")
    /\ UNCHANGED <<rooms, guests, bookings, lock, pending>>

(* rooms(), POST, up to its INSERT: an empty number is refused before any  *)
(* statement; the INSERT opens the transaction and takes the write lock,   *)
(* and keeps it when a UNIQUE or CHECK constraint refuses the row          *)
RoomsInsert(c, number_in, rtype, price) ==
    LET number == strip(number_in) IN
    /\ conn[c].pc = "idle"
    /\ IF number = <<>>
       THEN /\ EndRequest(c, "rooms", "Room number is required")
            /\ UNCHANGED <<lock, pending>>
       ELSE /\ lock = 0
            /\ lock' = c
            /\ IF RoomConstraintsOk(rooms, number, rtype, price)
               THEN /\ pending' = <<InsertRoom(rooms, number, rtype, price,
                                               "Available"), guests>>
                    /\ conn' = [conn EXCEPT ![c] =
                                   [pc |-> "r2", op |-> "rooms",
                                    args |-> <<number, rtype, price>>, total |-> 0]]
               ELSE /\ pending' = <<rooms, guests>>
                    /\ conn' = [conn EXCEPT ![c] =
                                   [pc |-> "rcaught", op |-> "rooms",
                                    args |-> <<number, rtype, price>>, total |-> 0]]
            /\ UNCHANGED last
    /\ UNCHANGED <<rooms, guests, bookings>>

(* db.commit() and flash("Room added") *)
RoomsCommit(c) ==
    /\ conn[c].pc = "r2"
    /\ lock = c
    /\ rooms' = pending[1]
    /\ lock' = 0
    /\ pending' = <<>>
    /\ EndRequest(c, "rooms", "Room added")
    /\ UNCHANGED <<guests, bookings>>

(* except sqlite3.IntegrityError: the flash, the SELECT of the page, and   *)
(* the teardown, which closes the connection and so releases the lock      *)
RoomsCaught(c) ==
    /\ conn[c].pc = "rcaught"
    /\ lock = c
    /\ LET t == close_db(<<rooms, guests>>, pending) IN
          /\ rooms' = t[1]
          /\ guests' = t[2]
    /\ lock' = 0
    /\ pending' = <<>>
    /\ EndRequest(c, "rooms", "Error: IntegrityError")
    /\ UNCHANGED bookings

(* the INSERT finds the database locked by another connection until the    *)
(* timeout: sqlite3.OperationalError, which rooms() does not catch         *)
RoomsBusy(c, number_in) ==
    /\ conn[c].pc = "idle"
    /\ strip(number_in) # <<>>
    /\ lock # 0
    /\ EndRequest(c, "rooms", "OperationalError")
    /\ UNCHANGED <<rooms, guests, bookings, lock, pending>>

(* guests(), POST, up to its INSERT *)
GuestsInsert(c, name_in, phone_in, email_in) ==
    LET name == strip(name_in) IN
    /\ conn[c].pc = "idle"
    /\ IF name = <<>>
       THEN /\ EndRequest(c, "guests", "Guest name is required")
            /\ UNCHANGED <<lock, pending>>
       ELSE /\ lock = 0
            /\ Len(guests) < MaxGuests
            /\ lock' = c
            /\ pending' = <<rooms, InsertGuest(guests, name, strip(phone_in),
                                               strip(email_in))>>
            /\ conn' = [conn EXCEPT ![c] = [pc |-> "g2", op |-> "guests",
                                            args |-> <<name>>, total |-> 0]]
            /\ UNCHANGED last
    /\ UNCHANGED <<rooms, guests, bookings>>

(* db.commit() and flash("Guest added") *)
GuestsCommit(c) ==
    /\ conn[c].pc = "g2"
    /\ lock = c
    /\ guests' = pending[2]
    /\ lock' = 0
    /\ pending' = <<>>
    /\ EndRequest(c, "guests", "Guest added")
    /\ UNCHANGED <<rooms, bookings>>

(* the INSERT finds the database locked until the timeout *)
GuestsBusy(c, name_in) ==
    /\ conn[c].pc = "idle"
    /\ strip(name_in) # <<>>
    /\ lock # 0
    /\ EndRequest(c, "guests", "OperationalError")
    /\ UNCHANGED <<rooms, guests, bookings, lock, pending>>

(* the request is aborted: the connection is closed without a commit *)
SeedAbort(c) ==
    /\ conn[c].pc # "idle"
    /\ LET t == close_db(<<rooms, guests>>, IF lock = c THEN pending ELSE <<>>) IN
          /\ rooms' = t[1]
          /\ guests' = t[2]
    /\ lock' = IF lock = c THEN 0 ELSE lock
    /\ pending' = IF lock = c THEN <<>> ELSE pending
    /\ EndRequest(c, conn[c].op, "Connection closed")
    /\ UNCHANGED bookings

(* the requests that write the rooms table: rooms() and seed() *)
RoomsTxNext ==
    \E c \in Conns :
       \/ \E n \in NumberInputs, t \in TypeInputs, p \in PriceInputs :
             RoomsInsert(c, n, t, p)
       \/ RoomsCommit(c)
       \/ RoomsCaught(c)
       \/ \E n \in NumberInputs : RoomsBusy(c, n)
       \/ SeedCountRooms(c)
       \/ SeedInsertRooms(c)
       \/ SeedCountGuests(c)
       \/ SeedInsertGuests(c)
       \/ SeedCommit(c)
       \/ SeedRaise(c)
       \/ SeedBusy(c)
       \/ SeedAbort(c)

RoomsTxSpec == SeedTxInit /\ [][RoomsTxNext]_vars

(* rooms(), seed() and guests() *)
SeedTxNext ==
    \/ RoomsTxNext
    \/ \E c \in Conns :
          \/ \E n \in NameInputs, ph \in PhoneInputs, e \in EmailInputs :
                GuestsInsert(c, n, ph, e)
          \/ GuestsCommit(c)
          \/ \E n \in NameInputs : GuestsBusy(c, n)

SeedTxSpec == SeedTxInit /\ [][SeedTxNext]_vars

----------------------------------------------------------------------------
(* Amounts: createBooking on one room, over whole-currency prices and      *)
(* stays that cross the end of a month, of February and of a year          *)

TotalPriceInputs == { 0, 1 * Scale, 1500 * Scale, 2500 * Scale }
TotalDatePairInputs ==
    { <<<<2023, 2, 27>>, <<2023, 3, 1>>>>, <<<<2024, 2, 27>>, <<2024, 3, 1>>>>,
      <<<<2023, 12, 31>>, <<2024, 1, 1>>>>, <<<<2024, 1, 1>>, <<2024, 1, 31>>>>,
      <<<<2024, 3, 1>>, <<2024, 2, 27>>>> }

TotalInit ==
    /\ \E p \in TotalPriceInputs :
          rooms = InsertRoom(<<>>, <<49, 48, 49>>, "Single", p, "Available")
    /\ guests = InsertGuest(<<>>, <<65>>, <<>>, <<>>)
    /\ bookings = <<>>
    /\ last = Response("none", "")
    /\ conn = <<>>
    /\ lock = 0
    /\ pending = <<>>

TotalCreateBooking ==
    \E r \in RoomIdInputs, g \in GuestIdInputs, d \in TotalDatePairInputs :
        BookingsPost(r, g, d[1], d[2])

TotalNext == TotalCreateBooking

TotalSpec == TotalInit /\ [][TotalNext]_vars

----------------------------------------------------------------------------
(* Vocabulary of the properties *)

NonTerminal == { "Booked", "Checked-In" }
Terminal == { "Checked-Out", "Cancelled" }

ActiveBookings(r) ==
    { b \in Ids(bookings) : bookings[b].room_id = r /\ bookings[b].status \in NonTerminal }

(* a date is strictly earlier than another, read off the calendar fields *)
DateBefore(a, b) ==
    \/ a[1] < b[1]
    \/ a[1] = b[1] /\ a[2] < b[2]
    \/ a[1] = b[1] /\ a[2] = b[2] /\ a[3] < b[3]

ValidPair(d) == strptime_ok(d[1]) /\ strptime_ok(d[2])

SuccessFlashes ==
    { "Booking created", "Guest checked in", "Guest checked out", "Booking cancelled",
      "Room added", "Guest added" }

(* the responses that tell the caller that a referenced row does not exist *)
NotFoundResults == { "Invalid room", "Invalid guest", "Invalid booking" }

----------------------------------------------------------------------------
(* C1: every room that is not in Maintenance is Occupied exactly when some *)
(* booking on it is Booked or Checked-In, and Available otherwise.         *)
C1_OccupancyIff ==
    \A r \in Ids(rooms) :
        rooms[r].status # "Maintenance" =>
            /\ rooms[r].status = "Occupied" <=> ActiveBookings(r) # {}
            /\ ActiveBookings(r) = {} => rooms[r].status = "Available"

(* C2: a booking whose status is Checked-Out or Cancelled keeps that       *)
(* status in every later step.                                             *)
C2_TerminalImmutable ==
    [][\A b \in Ids(bookings) :
          bookings[b].status \in Terminal => bookings'[b].status = bookings[b].status]_vars

(* C3: a booking whose status is not Booked is not Booked after any step   *)
(* either: no transition returns to Booked.                                *)
C3_NoReturnToBooked ==
    [][\A b \in Ids(bookings) :
          bookings[b].status # "Booked" => bookings'[b].status # "Booked"]_vars

C3_Witness ==
    /\ last.op = "action"
    /\ \E b \in Ids(bookings) : bookings[b].status = "Checked-In"
    /\ \E b \in Ids(bookings) : bookings[b].status \in Terminal

(* the step is the commit of connection c and applies both writes of its request *)
CommitsWhole(c) ==
    /\ conn[c].pc = "commit"
    /\ conn'[c].pc = "idle"
    /\ last'.result # "Connection closed"
    /\ IF conn[c].op = "action"
       THEN LET a == conn[c].args[1]
                b == conn[c].args[2]
            IN  /\ b \in Ids(bookings)
                /\ Len(bookings') = Len(bookings)
                /\ bookings'[b].status =
                      (IF a = "checkin" THEN "Checked-In"
                       ELSE IF a = "checkout" THEN "Checked-Out" ELSE "Cancelled")
                /\ rooms'[bookings[b].room_id].status =
                      (IF a = "checkin" THEN "Occupied" ELSE "Available")
       ELSE /\ Len(bookings') = Len(bookings) + 1
            /\ bookings'[Len(bookings')].room_id = conn[c].args[1]
            /\ bookings'[Len(bookings')].status = "Booked"
            /\ rooms'[conn[c].args[1]].status = "Occupied"

(* C4: the tables that the other requests read change only at the commit   *)
(* of a request, and then both of its writes are applied: an action has    *)
(* set its booking and the booking's room, a createBooking has added its   *)
(* booking and occupied its room.  A request that is aborted between its   *)
(* writes changes nothing.                                                 *)
C4_WritesCommitTogether ==
    [][(rooms' # rooms \/ bookings' # bookings) => \E c \in Conns : CommitsWhole(c)]_vars

(* an action was aborted after its first write, and the tables show neither write *)
C4_Witness ==
    /\ last = Response("action", "Connection closed")
    /\ lock = 0
    /\ \E b \in Ids(bookings) :
          /\ bookings[b].status = "Booked"
          /\ rooms[bookings[b].room_id].status = "Occupied"

(* C5: a createBooking that succeeds adds exactly one booking, in status   *)
(* Booked, referencing the given room and guest, leaves the earlier rows   *)
(* as they were, and the given room is Occupied afterwards.                *)
C5_CreateBookingEffect ==
    [][\A r \in RoomIdInputs, g \in GuestIdInputs, d \in DatePairInputs :
          (last'.result = "Booking created" /\ BookingsPost(r, g, d[1], d[2])) =>
              /\ r \in Ids(rooms) /\ g \in Ids(guests)
              /\ ValidPair(d) /\ DateBefore(d[1], d[2])
              /\ Len(bookings') = Len(bookings) + 1
              /\ SubSeq(bookings', 1, Len(bookings)) = bookings
              /\ bookings'[Len(bookings')].status = "Booked"
              /\ bookings'[Len(bookings')].room_id = r
              /\ bookings'[Len(bookings')].guest_id = g
              /\ rooms'[r].status = "Occupied"]_vars

C5_Witness ==
    /\ last = Response("book", "Booking created")
    /\ Len(bookings) = 2
    /\ bookings[2].status = "Booked"
    /\ bookings[2].room_id = 2
    /\ rooms[2].status = "Occupied"

(* C6: after checkOut (cancel) on an existing booking, the booking is      *)
(* Checked-Out (Cancelled) and its room is Available, whatever the prior   *)
(* statuses and the other bookings on the room.                            *)
C6_CheckOutCancelEffect ==
    [][\A b \in BookingIdInputs :
          /\ (last'.op = "action" /\ b \in Ids(bookings) /\ BookingsAction("checkout", b)) =>
                /\ bookings'[b].status = "Checked-Out"
                /\ rooms'[bookings[b].room_id].status = "Available"
          /\ (last'.op = "action" /\ b \in Ids(bookings) /\ BookingsAction("cancel", b)) =>
                /\ bookings'[b].status = "Cancelled"
                /\ rooms'[bookings[b].room_id].status = "Available"]_vars

C6_Witness ==
    /\ last = Response("action", "Booking cancelled")
    /\ \E b, c \in Ids(bookings) :
          /\ b # c
          /\ bookings[b].room_id = bookings[c].room_id
          /\ bookings[b].status = "Cancelled"
          /\ bookings[c].status = "Checked-In"
          /\ rooms[bookings[b].room_id].status = "Available"

(* C7: no step changes the status of a room that is in Maintenance.        *)
C7_MaintenanceKept ==
    [][\A r \in Ids(rooms) :
          rooms[r].status = "Maintenance" => rooms'[r].status = "Maintenance"]_vars

(* the step serves a createBooking whose dates parse and whose check-out is not later *)
C8_BadRangeRequest ==
    /\ last'.op = "book"
    /\ \E d \in DatePairInputs :
          /\ ValidPair(d)
          /\ ~DateBefore(d[1], d[2])
          /\ \E r \in RoomIdInputs, g \in GuestIdInputs : BookingsPost(r, g, d[1], d[2])

(* the step flashes the validation error and changes no table *)
C8_Rejected ==
    /\ last' = Response("book", "Check-out must be after check-in")
    /\ UNCHANGED store

(* C8: a createBooking whose check-out date is equal to or earlier than    *)
(* its check-in date is rejected with the validation error and leaves all  *)
(* three tables unchanged.                                                 *)
C8_BadRangeRejected == [][C8_Rejected \/ ~C8_BadRangeRequest]_vars

C8_Witness ==
    /\ last = Response("book", "Check-out must be after check-in")
    /\ Len(rooms) > 0
    /\ Len(guests) > 0
    /\ Len(bookings) > 0

(* C9: a createBooking with valid dates whose room id, or (the room        *)
(* existing) whose guest id, resolves to no row ends with a not-found      *)
(* response, adds no booking and changes no room.                          *)
C9_MissingRefNotFound ==
    [][\A r \in RoomIdInputs, g \in GuestIdInputs, d \in DatePairInputs :
          ( /\ last'.op = "book"
            /\ ValidPair(d) /\ DateBefore(d[1], d[2])
            /\ (r \notin Ids(rooms) \/ g \notin Ids(guests))
            /\ BookingsPost(r, g, d[1], d[2]) ) =>
              /\ last'.result \in NotFoundResults
              /\ bookings' = bookings
              /\ rooms' = rooms]_vars

(* C10: a transition on a booking id that does not exist ends with a       *)
(* not-found response, never a success message, and changes no table.      *)
C10_MissingBookingNotFound ==
    [][\A a \in KnownActions, b \in BookingIdInputs :
          (last'.op = "action" /\ b \notin Ids(bookings) /\ BookingsAction(a, b)) =>
              /\ last'.result \in NotFoundResults
              /\ last'.result \notin SuccessFlashes
              /\ UNCHANGED store]_vars

(* the day after a date, and the number of nights of a stay counted one day *)
(* at a time on the calendar                                                *)
NextDay(d) ==
    IF d[3] < DaysInMonth(d[1], d[2]) THEN <<d[1], d[2], d[3] + 1>>
    ELSE IF d[2] < 12 THEN <<d[1], d[2] + 1, 1>>
    ELSE <<d[1] + 1, 1, 1>>

RECURSIVE NightsBetween(_, _)
NightsBetween(a, b) == IF DateBefore(a, b) THEN 1 + NightsBetween(NextDay(a), b) ELSE 0

(* C11: the total amount stored with every booking is the price of its     *)
(* room multiplied by the number of nights from check-in to check-out, and *)
(* is not negative.                                                        *)
C11_TotalIsPriceTimesNights ==
    \A b \in Ids(bookings) :
        /\ bookings[b].total_amount =
              rooms[bookings[b].room_id].price_per_night
                  * NightsBetween(bookings[b].check_in, bookings[b].check_out)
        /\ bookings[b].total_amount >= 0

(* a three-night stay over 29 February at 1500 a night is stored as 4500 *)
C11_Witness ==
    /\ last = Response("book", "Booking created")
    /\ \E b \in Ids(bookings) :
          /\ bookings[b].check_in = <<2024, 2, 27>>
          /\ bookings[b].check_out = <<2024, 3, 1>>
          /\ rooms[bookings[b].room_id].price_per_night = 1500 * Scale
          /\ bookings[b].total_amount = 4500 * Scale

(* the fields of a booking that are written when it is created *)
CreationFields(row) ==
    <<row.total_amount, row.room_id, row.guest_id, row.check_in, row.check_out>>

(* C12: the total amount, the room reference, the guest reference and the  *)
(* dates of a booking are the same after every step: no transition on it   *)
(* or on another booking, createBooking, createRoom or createGuest changes *)
(* them.                                                                   *)
C12_CreationFieldsFixed ==
    [][\A b \in Ids(bookings) :
          /\ b \in Ids(bookings')
          /\ CreationFields(bookings'[b]) = CreationFields(bookings[b])]_vars

(* a booking was cancelled, a second one was created on its room and       *)
(* checked out, and the first still has its room, guest, dates and amount   *)
C12_Witness ==
    /\ last = Response("action", "Guest checked out")
    /\ Len(bookings) = 2
    /\ bookings[1].status = "Cancelled"
    /\ bookings[2].status = "Checked-Out"
    /\ CreationFields(bookings[1]) =
          <<3000 * Scale, 1, 1, <<2024, 1, 1>>, <<2024, 1, 3>>>>

(* a room of the table has the given number *)
NumberExists(number) == \E i \in Ids(rooms) : rooms[i].number = number

(* the step adds no room and does not report success *)
RoomRefused ==
    /\ rooms' = rooms
    /\ last'.result # "Room added"

(* the step adds exactly one room, Available, with the given fields *)
RoomAdded(number, rtype, price) ==
    /\ Len(rooms') = Len(rooms) + 1
    /\ SubSeq(rooms', 1, Len(rooms)) = rooms
    /\ rooms'[Len(rooms')] =
          [number |-> number, type |-> rtype, price_per_night |-> price,
           status |-> "Available"]

NumbersDistinct ==
    \A i, j \in Ids(rooms) : i # j => rooms[i].number # rooms[j].number

(* a request of connection c ends in this step with a response of rooms()  *)
RoomsEnds(c) ==
    /\ last'.op = "rooms"
    /\ conn' = [conn EXCEPT ![c] = Idle]

(* the request that ends is the rooms() request with the trimmed number,   *)
(* the category and the price given                                        *)
RoomsDone(c, number, rtype, price) ==
    \/ /\ conn[c].pc = "idle"
       /\ \E n \in NumberInputs :
             /\ strip(n) = number
             /\ RoomsBusy(c, n) \/ RoomsInsert(c, n, rtype, price)
    \/ /\ conn[c].pc \in { "r2", "rcaught" }
       /\ conn[c].args = <<number, rtype, price>>
       /\ RoomsCommit(c) \/ RoomsCaught(c)

TrimmedNumbers == { strip(n) : n \in NumberInputs }

(* C13: createRoom adds no room when a room with that number exists, when  *)
(* the price is negative or when the category is not Single, Double or     *)
(* Suite, and otherwise adds exactly one room, which is Available; room    *)
(* numbers are pairwise distinct in every state.  The claim is about the   *)
(* requests that end with a response, whatever runs next to them.          *)
C13_CreateRoomOutcome ==
    /\ []NumbersDistinct
    /\ [][\A c \in Conns : RoomsEnds(c) =>
          \A n \in TrimmedNumbers, t \in TypeInputs, p \in PriceInputs :
             \/ ~RoomsDone(c, n, t, p)
             \/ IF NumberExists(n) \/ p < 0 \/ t \notin { "Single", "Double", "Suite" }
                THEN RoomRefused
                ELSE RoomAdded(n, t, p)]_vars

(* C13, amended: createRoom also adds no room when the number is empty     *)
(* once the surrounding white space is removed, or when its INSERT finds   *)
(* the database locked by another request until the timeout; the number    *)
(* that is stored and compared is the trimmed one.                         *)
C13_CreateRoomOutcomeNonEmpty ==
    /\ []NumbersDistinct
    /\ [][\A c \in Conns : RoomsEnds(c) =>
          \A n \in TrimmedNumbers, t \in TypeInputs, p \in PriceInputs :
             \/ IF \/ n = <<>>
                   \/ lock \notin { 0, c }
                   \/ NumberExists(n) \/ p < 0 \/ t \notin { "Single", "Double", "Suite" }
                THEN RoomRefused
                ELSE RoomAdded(n, t, p)
             \/ ~RoomsDone(c, n, t, p)]_vars

(* two rooms are stored, one of them with the number "7", which only the   *)
(* input " 7\n" yields, and the last response is a createRoom refused by   *)
(* a constraint                                                            *)
C13_Witness ==
    /\ last = Response("rooms", "Error: IntegrityError")
    /\ Len(rooms) = 2
    /\ \E i \in Ids(rooms) : rooms[i].number = <<55>> /\ rooms[i].status = "Available"

(* C14: in every state the room reference of every booking resolves to a   *)
(* room of the table and its guest reference to a guest of the table.      *)
C14_NoDanglingReference ==
    \A b \in Ids(bookings) :
        /\ bookings[b].room_id \in Ids(rooms)
        /\ bookings[b].guest_id \in Ids(guests)

(* a createBooking naming a guest that does not exist was refused by the   *)
(* foreign key, after a booking had been stored                            *)
C14_Witness ==
    /\ last = Response("book", "IntegrityError")
    /\ Len(bookings) > 0

(* C15: a checkIn on an existing booking, whatever its status before, also *)
(* Checked-Out or Cancelled, leaves the booking Checked-In and its room    *)
(* Occupied, and the request reports success.                              *)
C15_CheckInUnconditional ==
    [][\A b \in BookingIdInputs :
          (last'.op = "action" /\ b \in Ids(bookings) /\ BookingsAction("checkin", b)) =>
              /\ bookings'[b].status = "Checked-In"
              /\ rooms'[bookings[b].room_id].status = "Occupied"
              /\ last'.result = "Guest checked in"]_vars

(* a checkIn has just been served and both bookings of a room are          *)
(* Checked-In, the room being Occupied                                     *)
C15_Witness ==
    /\ last = Response("action", "Guest checked in")
    /\ Len(bookings) = 2
    /\ bookings[1].room_id = bookings[2].room_id
    /\ bookings[1].status = "Checked-In"
    /\ bookings[2].status = "Checked-In"
    /\ rooms[bookings[1].room_id].status = "Occupied"

(* C16: a createBooking with valid dates on an existing room for an        *)
(* existing guest succeeds whatever the status of the room and whatever    *)
(* bookings the room has, also when the room is Occupied by a booking that *)
(* is Booked or Checked-In.                                                *)
C16_NoAvailabilityCheck ==
    [][\A r \in RoomIdInputs, g \in GuestIdInputs, d \in DatePairInputs :
          ( /\ last'.op = "book"
            /\ r \in Ids(rooms) /\ g \in Ids(guests)
            /\ ValidPair(d) /\ DateBefore(d[1], d[2])
            /\ BookingsPost(r, g, d[1], d[2]) ) =>
              /\ last'.result = "Booking created"
              /\ Len(bookings') = Len(bookings) + 1
              /\ bookings'[Len(bookings')].room_id = r
              /\ bookings'[Len(bookings')].status = "Booked"]_vars

(* a second createBooking has succeeded on an Occupied room: the room has  *)
(* two bookings that are Booked or Checked-In                              *)
C16_Witness ==
    /\ last = Response("book", "Booking created")
    /\ \E r \in Ids(rooms) :
          /\ rooms[r].status = "Occupied"
          /\ Cardinality(ActiveBookings(r)) >= 2

(* the bookings that were created for a room *)
BookingsOf(r) == { b \in Ids(bookings) : bookings[b].room_id = r }

(* C17: a room for which at most one booking was created is Occupied       *)
(* exactly when that booking exists and is Booked or Checked-In, and is    *)
(* Available otherwise, after any sequence of checkIn, checkOut and cancel *)
(* on it (rooms are created Available and none is in Maintenance).         *)
C17_SingleBookingOccupancy ==
    \A r \in Ids(rooms) :
        Cardinality(BookingsOf(r)) <= 1 =>
            IF \E b \in BookingsOf(r) : bookings[b].status \in NonTerminal
            THEN rooms[r].status = "Occupied"
            ELSE rooms[r].status = "Available"

(* a checkIn has been served, the only booking of a room is Checked-In and *)
(* the room is Occupied; another room has no booking and is Available      *)
C17_Witness ==
    /\ last = Response("action", "Guest checked in")
    /\ \E r, q \in Ids(rooms) :
          /\ Cardinality(BookingsOf(r)) = 1
          /\ \A b \in BookingsOf(r) : bookings[b].status = "Checked-In"
          /\ rooms[r].status = "Occupied"
          /\ BookingsOf(q) = {}
          /\ rooms[q].status = "Available"

(* C18: in every state a room that is Occupied has at least one booking    *)
(* that is Booked or Checked-In, however many bookings were created for    *)
(* it (rooms are created Available).                                       *)
C18_OccupiedHasActiveBooking ==
    \A r \in Ids(rooms) : rooms[r].status = "Occupied" => ActiveBookings(r) # {}

(* a room with two bookings, one of them Cancelled and the other           *)
(* Checked-In by the latest request, is Occupied                           *)
C18_Witness ==
    /\ last = Response("action", "Guest checked in")
    /\ \E r \in Ids(rooms) :
          /\ rooms[r].status = "Occupied"
          /\ Cardinality(BookingsOf(r)) = 2
          /\ \E b \in BookingsOf(r) : bookings[b].status = "Cancelled"
          /\ \E b \in BookingsOf(r) : bookings[b].status = "Checked-In"

(* C19: an action on an existing booking changes at most the status of     *)
(* that booking and the status of the room it references: no booking is    *)
(* added or removed, the other bookings, the other rooms, the number, type *)
(* and price of every room and the guests are as before.                   *)
C19_TransitionFrame ==
    [][\A a \in KnownActions, b \in BookingIdInputs :
          (last'.op = "action" /\ b \in Ids(bookings) /\ BookingsAction(a, b)) =>
              /\ Len(bookings') = Len(bookings)
              /\ \A i \in Ids(bookings) :
                    IF i = b
                    THEN bookings'[i] = [bookings[i] EXCEPT !.status = bookings'[i].status]
                    ELSE bookings'[i] = bookings[i]
              /\ Len(rooms') = Len(rooms)
              /\ \A r \in Ids(rooms) :
                    IF r = bookings[b].room_id
                    THEN rooms'[r] = [rooms[r] EXCEPT !.status = rooms'[r].status]
                    ELSE rooms'[r] = rooms[r]
              /\ guests' = guests]_vars

(* a booking was cancelled and its room is Available, while the booking of *)
(* another room is still Booked and that room Occupied                     *)
C19_Witness ==
    /\ last = Response("action", "Booking cancelled")
    /\ \E b, c \in Ids(bookings) :
          /\ bookings[b].room_id # bookings[c].room_id
          /\ bookings[b].status = "Cancelled"
          /\ rooms[bookings[b].room_id].status = "Available"
          /\ bookings[c].status = "Booked"
          /\ rooms[bookings[c].room_id].status = "Occupied"

(* the step is the commit of the request of connection c *)
Commits(c) ==
    /\ conn[c].pc = "commit"
    /\ conn'[c].pc = "idle"
    /\ last'.result # "Connection closed"

(* the step changes the tables as the whole request of connection c does   *)
(* when it is served alone on the tables as they are before the step       *)
SerialEffect(c) ==
    LET a == conn[c].args IN
    IF conn[c].op = "action"
    THEN /\ bookings' = ActionBookings(bookings, a[1], a[2])
         /\ rooms' = ActionRooms(rooms, bookings', a[1], a[2])
         /\ guests' = guests
    ELSE /\ DateError(a[3], a[4]) = ""
         /\ SelectRoom(rooms, a[1]) # <<>>
         /\ ForeignKeysOk(rooms, guests, a[1], a[2])
         /\ bookings' = InsertBooking(bookings, a[1], a[2], a[3], a[4],
                              compute_total_amount(rooms[a[1]].price_per_night, a[3], a[4]))
         /\ rooms' = UpdateRoomStatus(rooms, a[1], "Occupied")
         /\ guests' = guests

(* C20: whatever the interleaving of the statements of concurrent          *)
(* createBooking and action requests, the committed tables change only at  *)
(* the commit of a request, and then exactly as that request changes them  *)
(* when served alone at that moment: the committed statuses are those of   *)
(* the committed requests executed one at a time, in the order of their    *)
(* commits.                                                                *)
C20_SerialInCommitOrder ==
    [][/\ \A c \in Conns : Commits(c) => SerialEffect(c)
       /\ store' # store => \E c \in Conns : Commits(c)]_vars

(* a createBooking has committed; one request has read the room and has   *)
(* not written yet while another holds the write lock with both of its     *)
(* writes done and not committed                                           *)
C20_Witness ==
    /\ last = Response("book", "Booking created")
    /\ Len(bookings) > 0
    /\ \E c, d \in Conns :
          /\ conn[c].pc = "p1"
          /\ conn[d].pc = "commit"
          /\ lock = d

====
